---- MODULE Spec2Model ----
(***************************************************************************)
(* Model of peregrinearb/bellmannx.py: the modified Bellman-Ford search    *)
(* for negative-weight cycles (NegativeWeightFinder and                    *)
(* NegativeWeightDepthFinder).                                             *)
(*                                                                         *)
(* A graph is the sequence of its edges in edge-iteration order; an edge   *)
(* is a record [u, v, weight, depth] for the networkx triple               *)
(* (edge[0], edge[1], edge[2]).  Weights are integers.  float('Inf') is    *)
(* the value Inf, with the IEEE rules Inf + w = Inf and not (Inf < Inf).   *)
(***************************************************************************)
EXTENDS Integers, Sequences, FiniteSets, TLC

\* ----------------------------------------------------------------- bounds
NumNodes == 3
MaxEdges == 3
MaxWeight == 1
MaxSimpleEdges == 4
MaxDepthEdges == 4
MaxAnchoredEdges == 4
MaxAnchoredWeight == 2
MaxDepth == 1
MaxCalls == 2
MaxRetraces == 3
MaxPathNodes == 3
MaxStartingAmount == 3
MaxRelaxCalls == 4

Inf == 1000000

Nodes == 1..NumNodes
Weights == (0 - MaxWeight)..MaxWeight
NodePairs == Nodes \X Nodes

\* ------------------------------------------------------- python helpers
Add(a, b) == IF a = Inf \/ b = Inf THEN Inf ELSE a + b

Slice(li, a, b) == SubSeq(li, a + 1, b)

Insert0(li, x) == <<x>> \o li

InList(li, x) == \E i \in 1..Len(li) : li[i] = x

SetOf(li) == {li[i] : i \in 1..Len(li)}

EmptyDict == [n \in {} |-> 0]

\* utils.last_index_in_list: the (0-based) index of the last occurrence
last_index_in_list(li, element) ==
    (CHOOSE i \in 1..Len(li) :
        li[i] = element /\ \A j \in (i + 1)..Len(li) : li[j] # element) - 1

\* utils.next_to_each_other(li, a, b): a is immediately followed by b in li
next_to_each_other(li, a, b) ==
    \E i \in 1..(Len(li) - 1) : li[i] = a /\ li[i + 1] = b

\* ---------------------------------------------- PrioritySet (candidate store)
\* items: (priority, node) entries ascending by priority, ties in insertion
\* order; cursor: the number of entries already consumed.
NewPrioritySet == [items |-> <<>>, cursor |-> 0]

\* the number of entries that stay before a new entry of priority pri
RECURSIVE InsertPos(_, _, _)
InsertPos(items, pri, k) ==
    IF k = 0 \/ items[k].pri <= pri THEN k ELSE InsertPos(items, pri, k - 1)

PSAdd(ps, d, pri) ==
    LET k == InsertPos(ps.items, pri, Len(ps.items))
    IN  [ps EXCEPT !.items = SubSeq(ps.items, 1, k) \o <<[pri |-> pri, node |-> d]>>
                               \o SubSeq(ps.items, k + 1, Len(ps.items))]

PSEmpty(ps) == ps.cursor >= Len(ps.items)

PSPeek(ps) == ps.items[ps.cursor + 1]

PSPop(ps) == [ps EXCEPT !.cursor = @ + 1]

PSReset(ps) == [ps EXCEPT !.cursor = 0]

\* ------------------------------------------------------------------ state
VARIABLES
    finder,           \* "plain": NegativeWeightFinder, "depth": NegativeWeightDepthFinder
    graph,            \* self.graph: the edges in iteration order
    distance_to,      \* self.distance_to
    distance_from,    \* self.distance_from
    predecessor_to,   \* self.predecessor_to
    predecessor_from, \* self.predecessor_from
    seen_nodes,       \* self.seen_nodes
    kwargs,           \* the arguments of the running bellman_ford call
    pc,               \* "new" | "scan" | "done" | "raised" | "refused", and
                      \* for the direct calls "retraced" | "reset" | "relaxing"
    edge_i,           \* edges of the final scan already examined
    yielded,          \* what the generator has yielded so far, in order
    last,             \* the outcome of the latest retrace
    error,            \* the exception that ended the generator, or the call
    history,          \* the earlier calls on this finder as the caller saw
                      \* them: of bellman_ford, their arguments, what they
                      \* yielded and how they ended; of the retrace called
                      \* directly, its start node and its outcome
    profit            \* the latest calculate_profit_ratio_for_path call: its
                      \* arguments and what it returned or raised

vars == <<finder, graph, distance_to, distance_from, predecessor_to,
          predecessor_from, seen_nodes, kwargs, pc, edge_i, yielded, last, error,
          history, profit>>

\* ------------------------------------------------------------ graph access
HasEdge(g, a, b) == \E i \in 1..Len(g) : g[i].u = a /\ g[i].v = b

\* self.graph[a][b]
EdgeData(g, a, b) == g[CHOOSE i \in 1..Len(g) : g[i].u = a /\ g[i].v = b]

\* ------------------------------------------------------------- relaxation
\* NegativeWeightFinder.initialize (with _set_basic_fields): the four maps
\* after initialize(source), as one record
Initialized(source) ==
    [dt |-> [n \in Nodes |-> IF n = source THEN 0 ELSE Inf],
     df |-> [n \in Nodes |-> IF n = source THEN 0 ELSE Inf],
     pt |-> [n \in Nodes |-> NewPrioritySet],
     pf |-> [n \in Nodes |-> NewPrioritySet]]

\* a relax without its second half, lines 149-153
RelaxToOnly(st, e) ==
    LET dt1 == IF Add(st.dt[e.u], e.weight) < st.dt[e.v]
               THEN [st.dt EXCEPT ![e.v] = Add(st.dt[e.u], e.weight)]
               ELSE st.dt
        pt1 == [st.pt EXCEPT ![e.v] = PSAdd(@, e.u, Add(dt1[e.u], e.weight))]
    IN  [dt |-> dt1, df |-> st.df, pt |-> pt1, pf |-> st.pf]

\* a relax that records the candidate but forgets line 142, the assignment
\* to distance_to
RelaxKeepsDistanceTo(st, e) ==
    LET pt1 == [st.pt EXCEPT ![e.v] = PSAdd(@, e.u, Add(st.dt[e.u], e.weight))]
        df1 == IF Add(st.df[e.v], e.weight) < st.df[e.u]
               THEN [st.df EXCEPT ![e.u] = Add(st.df[e.v], e.weight)]
               ELSE st.df
        pf1 == [st.pf EXCEPT ![e.u] = PSAdd(@, e.v, Add(df1[e.v], e.weight))]
    IN  [dt |-> st.dt, df |-> df1, pt |-> pt1, pf |-> pf1]

\* NegativeWeightFinder.relax(edge)
Relax(st, e) ==
    LET dt1 == IF Add(st.dt[e.u], e.weight) < st.dt[e.v]
               THEN [st.dt EXCEPT ![e.v] = Add(st.dt[e.u], e.weight)]
               ELSE st.dt
        pt1 == [st.pt EXCEPT ![e.v] = PSAdd(@, e.u, Add(dt1[e.u], e.weight))]
        df1 == IF Add(st.df[e.v], e.weight) < st.df[e.u]
               THEN [st.df EXCEPT ![e.u] = Add(st.df[e.v], e.weight)]
               ELSE st.df
        pf1 == [st.pf EXCEPT ![e.u] = PSAdd(@, e.v, Add(df1[e.v], e.weight))]
    IN  [dt |-> dt1, df |-> df1, pt |-> pt1, pf |-> pf1]

\* one pass: `for edge in self.graph.edges(data=True): self.relax(edge)`
RECURSIVE RelaxEdges(_, _, _)
RelaxEdges(st, g, j) ==
    IF j > Len(g) THEN st ELSE RelaxEdges(Relax(st, g[j]), g, j + 1)

\* a slip in line 96: one relaxation pass too few
NumPassesShort == NumNodes - 2

\* range(len(self.graph) - 1)
NumPasses == NumNodes - 1

RECURSIVE RelaxPasses(_, _, _)
RelaxPasses(st, g, i) ==
    IF i <= 0 THEN st ELSE RelaxPasses(RelaxEdges(st, g, 1), g, i - 1)

\* the condition of the final scan: the edge can still be relaxed
IsWitness(dt, e) == Add(dt[e.u], e.weight) < dt[e.v]

\* a reset that leaves every cursor where it stands
reset_nothing(s) == s

\* NegativeWeightFinder.reset_predecessor_iteration
reset_predecessor_iteration(s) ==
    [s EXCEPT !.pt = [n \in DOMAIN s.pt |-> PSReset(s.pt[n])],
              !.pf = [n \in DOMAIN s.pt |-> PSReset(s.pf[n])]]

\* ---------------------------------------------------------------- retrace
\* The outcome of one _retrace_negative_loop call: kind is "path" when it
\* returns, otherwise the exception it raises; s is the finder's state
\* (pt, pf, seen) as the call leaves it.
Outcome(kind, path, minimum, repeated, s) ==
    [kind |-> kind, path |-> path, minimum |-> minimum, repeated |-> repeated,
     pt |-> s.pt, pf |-> s.pf, seen |-> s.seen]

\* a slip in lines 174-175: the nodes walked before the cycle are kept
ClosedLoopUntrimmed(arbitrage_loop, next_node) == Insert0(arbitrage_loop, next_node)

\* `if next_node in arbitrage_loop:` the cycle cut out of the walk, closed
\* by next_node (lines 174-175)
ClosedLoop(arbitrage_loop, next_node) ==
    Insert0(Slice(arbitrage_loop, 0, last_index_in_list(arbitrage_loop, next_node) + 1),
            next_node)

\* NegativeWeightFinder._retrace_negative_loop, `not loop_from_source`:
\* the `while True` loop; node is next_node on entry to an iteration
RECURSIVE PlainLoop(_, _, _, _)
PlainLoop(arbitrage_loop, node, s, unique_paths) ==
    IF PSEmpty(s.pt[node])
    THEN Outcome("ExhaustedError", arbitrage_loop, 0, 0, s)
    ELSE
      LET next_node == PSPeek(s.pt[node]).node
          s1 == [s EXCEPT !.pt[node] = PSPop(@)]
      IN  IF InList(arbitrage_loop, next_node)
          THEN Outcome("path", ClosedLoop(arbitrage_loop, next_node), 0, 0,
                       reset_predecessor_iteration(s1))
          ELSE IF unique_paths /\ next_node \in s1.seen
          THEN Outcome("SeenNodeError", arbitrage_loop, 0, 0, s1)
          ELSE PlainLoop(Insert0(arbitrage_loop, next_node), next_node,
                         [s1 EXCEPT !.seen = @ \cup {next_node}], unique_paths)

\* NegativeWeightFinder._retrace_negative_loop
RetracePlain(start, s, kw) ==
    IF kw.unique_paths /\ start \in s.seen
    THEN Outcome("SeenNodeError", <<>>, 0, 0, s)
    ELSE PlainLoop(<<start>>, start, s, kw.unique_paths)

\* ---- the loop_from_source branch

\* list.index(x): the (0-based) index of the first occurrence
ListIndex(li, x) ==
    (CHOOSE i \in 1..Len(li) : li[i] = x /\ \A j \in 1..(i - 1) : li[j] # x) - 1

\* every consecutive pair of li is an edge of g
IsWalk(g, li) == \A i \in 1..(Len(li) - 1) : HasEdge(g, li[i], li[i + 1])

\* sum of self.graph[li[i]][li[i + 1]]['weight']
RECURSIVE PathWeight(_, _)
PathWeight(g, li) ==
    IF Len(li) < 2 THEN 0
    ELSE EdgeData(g, li[1], li[2]).weight + PathWeight(g, Tail(li))

Abs(x) == IF x < 0 THEN 0 - x ELSE x

\* list * n
RECURSIVE Repeat(_, _)
Repeat(li, n) == IF n <= 0 THEN <<>> ELSE li \o Repeat(li, n - 1)

\* the `if ensure_profit:` block: the rotation to source and the repetition
\* of the loop; [kind, loop, repeated], kind "ok" or the exception raised
EnsureProfit(arbitrage_loop, kw) ==
    LET rotated ==
            IF InList(arbitrage_loop, kw.source)
            THEN LET index == ListIndex(arbitrage_loop, kw.source)
                 IN  Slice(arbitrage_loop, index, Len(arbitrage_loop))
                       \o Slice(arbitrage_loop, 0, index)
            ELSE arbitrage_loop
        return_path_weight ==
            Add(distance_to[rotated[1]], distance_from[rotated[Len(rotated)]])
    IN  IF ~(return_path_weight > 0)
        THEN [kind |-> "ok", loop |-> rotated, repeated |-> 0]
        ELSE IF ~IsWalk(graph, rotated)
        THEN [kind |-> "KeyError", loop |-> rotated, repeated |-> 0]
        ELSE
          LET loop_weight == PathWeight(graph, rotated)
          IN  IF loop_weight = 0
              THEN [kind |-> "ZeroDivisionError", loop |-> rotated, repeated |-> 0]
              ELSE IF return_path_weight = Inf
              THEN [kind |-> "OverflowError", loop |-> rotated, repeated |-> 0]
              ELSE IF return_path_weight % Abs(loop_weight) = 0
              THEN [kind |-> "TypeError", loop |-> rotated, repeated |-> 0]
              ELSE LET scalar == (return_path_weight \div Abs(loop_weight)) + 2
                   IN  [kind |-> "ok", loop |-> Repeat(rotated, scalar),
                        repeated |-> scalar]

\* _pop_arbitrage_loop(loop, predecessor): <<>> stands for the IndexError
\* of loop[0] on the emptied list
RECURSIVE pop_arbitrage_loop(_, _)
pop_arbitrage_loop(loop, predecessor) ==
    IF loop = <<>> THEN <<>>
    ELSE IF PSEmpty(predecessor[loop[1]]) THEN pop_arbitrage_loop(Tail(loop), predecessor)
    ELSE loop

\* `while arbitrage_loop[-1] != source:` the path back to source
RECURSIVE SuffixLoop(_, _, _, _)
SuffixLoop(arbitrage_loop, repeated, s, kw) ==
    LET tail == arbitrage_loop[Len(arbitrage_loop)]
    IN  IF tail = kw.source
        THEN Outcome("path", arbitrage_loop, 0, repeated, reset_predecessor_iteration(s))
        ELSE IF PSEmpty(s.pf[tail])
        THEN Outcome("ExhaustedError", arbitrage_loop, 0, repeated, s)
        ELSE
          LET next_node == PSPeek(s.pf[tail]).node
              s1 == IF next_to_each_other(arbitrage_loop, tail, next_node)
                    THEN [s EXCEPT !.pf[tail] = PSPop(@)]
                    ELSE s
          IN  SuffixLoop(Append(arbitrage_loop, next_node), repeated, s1, kw)

\* `while arbitrage_loop[0] != source:` the path from source
RECURSIVE PrefixLoop(_, _, _, _)
PrefixLoop(arbitrage_loop, repeated, s, kw) ==
    IF arbitrage_loop[1] = kw.source
    THEN SuffixLoop(arbitrage_loop, repeated, s, kw)
    ELSE
      LET l1 == pop_arbitrage_loop(arbitrage_loop, s.pt)
      IN  IF l1 = <<>>
          THEN Outcome("IndexError", l1, 0, repeated, s)
          ELSE
            LET next_node == PSPeek(s.pt[l1[1]]).node
                s1 == [s EXCEPT !.pt[l1[1]] = PSPop(@)]
            IN  IF ~next_to_each_other(l1, next_node, l1[1])
                THEN PrefixLoop(Insert0(l1, next_node), repeated, s1, kw)
                ELSE IF PSEmpty(s1.pt[l1[1]])
                THEN Outcome("ExhaustedError", l1, 0, repeated, s1)
                ELSE
                  LET s2 == [s1 EXCEPT !.pt[l1[1]] = PSPop(@)]
                      l2 == pop_arbitrage_loop(l1, s2.pt)
                  IN  IF l2 = <<>>
                      THEN Outcome("IndexError", l2, 0, repeated, s2)
                      ELSE PrefixLoop(Insert0(l2, PSPeek(s2.pt[l2[1]]).node), repeated,
                                      [s2 EXCEPT !.pt[l2[1]] = PSPop(@)], kw)

\* the negative cycle is complete: lines 204-260
CloseLoop(arbitrage_loop, next_node, s, kw) ==
    LET l1 == Insert0(arbitrage_loop, next_node)
        l2 == Slice(l1, 0, last_index_in_list(l1, next_node) + 1)
        ep == IF kw.ensure_profit THEN EnsureProfit(l2, kw)
              ELSE [kind |-> "ok", loop |-> l2, repeated |-> 0]
    IN  IF ep.kind # "ok"
        THEN Outcome(ep.kind, ep.loop, 0, 0, s)
        ELSE IF PSEmpty(s.pt[ep.loop[1]])
        THEN Outcome("ExhaustedError", ep.loop, 0, ep.repeated, s)
        ELSE PrefixLoop(ep.loop, ep.repeated, [s EXCEPT !.pt[ep.loop[1]] = PSPop(@)], kw)

\* the `while True` loop of the loop_from_source branch
RECURSIVE AnchoredLoop(_, _, _)
AnchoredLoop(arbitrage_loop, s, kw) ==
    IF PSEmpty(s.pt[arbitrage_loop[1]])
    THEN Outcome("ExhaustedError", arbitrage_loop, 0, 0, s)
    ELSE
      LET next_node == PSPeek(s.pt[arbitrage_loop[1]]).node
      IN  IF next_to_each_other(arbitrage_loop, next_node, arbitrage_loop[1])
          THEN CloseLoop(arbitrage_loop, next_node, s, kw)
          ELSE IF kw.unique_paths /\ next_node \in s.seen
          THEN Outcome("SeenNodeError", arbitrage_loop, 0, 0, s)
          ELSE AnchoredLoop(Insert0(arbitrage_loop, next_node),
                            [s EXCEPT !.seen = @ \cup {next_node}], kw)

\* NegativeWeightFinder._retrace_negative_loop, loop_from_source
RetraceAnchored(start, s, kw) ==
    IF kw.unique_paths /\ start \in s.seen
    THEN Outcome("SeenNodeError", <<>>, 0, 0, s)
    ELSE IF kw.source \notin Nodes
    THEN Outcome("ValueError", <<start>>, 0, 0, s)
    ELSE IF PSEmpty(s.pt[start])
    THEN Outcome("ExhaustedError", <<start>>, 0, 0, s)
    ELSE
      LET next_node == PSPeek(s.pt[start]).node
      IN  IF kw.unique_paths /\ next_node \in s.seen
          THEN Outcome("SeenNodeError", <<start>>, 0, 0, s)
          ELSE AnchoredLoop(<<next_node, start>>, s, kw)

\* ---- NegativeWeightDepthFinder

Max(a, b) == IF a >= b THEN a ELSE b

\* the update of the running minimum for one more edge, lines 336-341
NextMinimum(minimum, edge_weight, edge_depth) ==
    IF edge_weight + edge_depth < minimum THEN Max(minimum - edge_weight, edge_depth)
    ELSE IF edge_weight + edge_depth > minimum THEN edge_depth
    ELSE minimum

\* the `while True` loop of NegativeWeightDepthFinder._retrace_negative_loop
RECURSIVE DepthLoop(_, _, _, _, _)
DepthLoop(arbitrage_loop, prior_node, minimum, s, unique_paths) ==
    IF arbitrage_loop[1] \in s.seen /\ unique_paths
    THEN Outcome("SeenNodeError", arbitrage_loop, minimum, 0, s)
    ELSE
      LET s1 == [s EXCEPT !.seen = @ \cup {prior_node}]
      IN  IF PSEmpty(s1.pt[arbitrage_loop[1]])
          THEN Outcome("ExhaustedError", arbitrage_loop, minimum, 0, s1)
          ELSE
            LET prior == PSPeek(s1.pt[arbitrage_loop[1]]).node
                s2 == [s1 EXCEPT !.pt[arbitrage_loop[1]] = PSPop(@)]
                e == EdgeData(graph, prior, arbitrage_loop[1])
                m == NextMinimum(minimum, e.weight, e.depth)
                l1 == Insert0(arbitrage_loop, prior)
            IN  IF prior = arbitrage_loop[Len(arbitrage_loop)]
                THEN Outcome("path", l1, m, 0, s2)
                ELSE DepthLoop(l1, prior, m, s2, unique_paths)

\* NegativeWeightDepthFinder._retrace_negative_loop
RetraceDepth(start, s, kw) ==
    IF kw.unique_paths /\ start \in s.seen
    THEN Outcome("SeenNodeError", <<>>, 0, 0, s)
    ELSE IF kw.loop_from_source \/ kw.ensure_profit
    THEN Outcome("ValueError", <<>>, 0, 0, s)
    ELSE IF PSEmpty(s.pt[start])
    THEN Outcome("ExhaustedError", <<start>>, 0, 0, s)
    ELSE
      LET prior_node == PSPeek(s.pt[start]).node
          s1 == [s EXCEPT !.pt[start] = PSPop(@)]
      IN  DepthLoop(<<prior_node, start>>, prior_node,
                    EdgeData(graph, prior_node, start).depth, s1, kw.unique_paths)

\* self._retrace_negative_loop(edge[1], ...) as _check_final_condition calls it
Retrace(start) ==
    LET s == [pt |-> predecessor_to, pf |-> predecessor_from, seen |-> seen_nodes]
    IN  IF finder = "depth" THEN RetraceDepth(start, s, kwargs)
        ELSE IF kwargs.loop_from_source THEN RetraceAnchored(start, s, kwargs)
        ELSE RetracePlain(start, s, kwargs)

\* ---------------------------------------------------------------- actions
\* the sequences of n distinct node pairs of P
PairSeqs(P, n) ==
    {ps \in [1..n -> P] : \A i, j \in 1..n : i # j => ps[i] # ps[j]}

\* a graph: the pairs ps in iteration order, with their weights and depths
EdgesOf(ps, ws, ds) ==
    [i \in DOMAIN ps |-> [u |-> ps[i][1], v |-> ps[i][2],
                          weight |-> ws[i], depth |-> ds[i]]]

SimplePairs == {p \in NodePairs : p[1] # p[2]}

NoRetrace == [kind |-> "none", start |-> 0, path |-> <<>>, minimum |-> 0, repeated |-> 0]

\* no calculate_profit_ratio_for_path call yet
NoProfit == [kind |-> "none"]

NoKwargs == [source |-> 0, loop_from_source |-> FALSE, ensure_profit |-> FALSE,
             unique_paths |-> FALSE]

\* NegativeWeightFinder.__init__
Constructed(f, g) ==
    /\ finder = f
    /\ graph = g
    /\ distance_to = EmptyDict
    /\ distance_from = EmptyDict
    /\ predecessor_to = EmptyDict
    /\ predecessor_from = EmptyDict
    /\ seen_nodes = {}
    /\ kwargs = NoKwargs
    /\ pc = "new"
    /\ edge_i = 0
    /\ yielded = <<>>
    /\ last = NoRetrace
    /\ error = "none"
    /\ history = <<>>
    /\ profit = NoProfit

\* the finder f is constructed on a graph of n edges whose pairs, in
\* iteration order, are a sequence of PS, with weights from W, depths from D
ConstructedOver(f, PS, n, W, D) ==
    \E ps \in PS, ws \in [1..n -> W], ds \in [1..n -> D] :
        Constructed(f, EdgesOf(ps, ws, ds))

\* every directed graph on Nodes of at most MaxEdges edges, self-loops
\* included, in every edge-iteration order
Init ==
    \E n \in 0..MaxEdges :
        ConstructedOver("plain", PairSeqs(NodePairs, n), n, Weights, {0})

\* every graph without self-loops of at most MaxSimpleEdges edges
InitSimple ==
    \E n \in 0..MaxSimpleEdges :
        ConstructedOver("plain", PairSeqs(SimplePairs, n), n, Weights, {0})

\* the pairs ps in ascending order: the iteration order of a graph whose
\* nodes and edges were added in ascending order
Ascending(ps) ==
    \A i \in 1..(Len(ps) - 1) :
        \/ ps[i][1] < ps[i + 1][1]
        \/ ps[i][1] = ps[i + 1][1] /\ ps[i][2] < ps[i + 1][2]

AscendingSeqs(n) == {ps \in [1..n -> SimplePairs] : Ascending(ps)}

AnchoredWeights == (0 - MaxAnchoredWeight)..MaxAnchoredWeight

\* every graph without self-loops of at most MaxAnchoredEdges edges, its
\* edges in ascending order
InitAnchored ==
    \E n \in 0..MaxAnchoredEdges :
        ConstructedOver("plain", AscendingSeqs(n), n, AnchoredWeights, {0})

\* every graph without self-loops of at most MaxEdges edges, its edges in
\* ascending order
InitSmall ==
    \E n \in 0..MaxEdges :
        ConstructedOver("plain", AscendingSeqs(n), n, Weights, {0})

\* the depth finder on every graph without self-loops of at most MaxEdges
\* edges, its edges in ascending order
InitDepthSmall ==
    \E n \in 0..MaxEdges :
        ConstructedOver("depth", AscendingSeqs(n), n, Weights, 0..MaxDepth)

\* the depth finder on every graph without self-loops of at most
\* MaxDepthEdges edges, its edges in ascending order
InitDepth ==
    \E n \in 0..MaxDepthEdges :
        ConstructedOver("depth", AscendingSeqs(n), n, Weights, 0..MaxDepth)

\* NegativeWeightFinder.bellman_ford: initialize, the relaxation passes, and
\* the generator of _check_final_condition is returned.  LFS, EP and UP are
\* the sets the flags loop_from_source, ensure_profit, unique_paths are drawn from.
BellmanFord(source, LFS, EP, UP) ==
    /\ pc = "new"
    /\ source \in Nodes
    /\ LET st == RelaxPasses(Initialized(source), graph, NumPasses)
       IN  /\ distance_to' = st.dt
           /\ distance_from' = st.df
           /\ predecessor_to' = st.pt
           /\ predecessor_from' = st.pf
           /\ \E loop_from_source \in LFS, ensure_profit \in EP,
                 unique_paths \in UP :
                 kwargs' = [source |-> source, loop_from_source |-> loop_from_source,
                            ensure_profit |-> ensure_profit,
                            unique_paths |-> unique_paths]
    /\ pc' = "scan"
    /\ edge_i' = 0
    /\ UNCHANGED <<finder, graph, seen_nodes, yielded, last, error, history, profit>>

BellmanFordPlain == \E source \in Nodes : BellmanFord(source, {FALSE}, {FALSE}, BOOLEAN)

BellmanFordAnchored == \E source \in Nodes : BellmanFord(source, {TRUE}, BOOLEAN, BOOLEAN)

BellmanFordDepth == \E source \in Nodes : BellmanFord(source, {FALSE}, {FALSE}, BOOLEAN)

\* bellman_ford called with any combination of the three flags
BellmanFordAnyFlags == \E source \in Nodes : BellmanFord(source, BOOLEAN, BOOLEAN, BOOLEAN)

\* the earlier calls as a further call finds them: the call before it is over
Logged ==
    IF pc = "new" THEN history
    ELSE Append(history, [kwargs |-> kwargs, yielded |-> yielded, error |-> error])

\* bellman_ford called again on the same finder, the generator of the call
\* before it exhausted: initialize overwrites the four maps of every node,
\* nothing touches seen_nodes
BellmanFordAgain(source, LFS, EP, UP) ==
    /\ pc \in {"done", "raised", "refused"}
    /\ Len(history) + 1 < MaxCalls
    /\ source \in Nodes
    /\ LET st == RelaxPasses(Initialized(source), graph, NumPasses)
       IN  /\ distance_to' = st.dt
           /\ distance_from' = st.df
           /\ predecessor_to' = st.pt
           /\ predecessor_from' = st.pf
           /\ \E loop_from_source \in LFS, ensure_profit \in EP,
                 unique_paths \in UP :
                 kwargs' = [source |-> source, loop_from_source |-> loop_from_source,
                            ensure_profit |-> ensure_profit,
                            unique_paths |-> unique_paths]
    /\ pc' = "scan"
    /\ edge_i' = 0
    /\ yielded' = <<>>
    /\ last' = NoRetrace
    /\ error' = "none"
    /\ history' = Logged
    /\ UNCHANGED <<finder, graph, seen_nodes, profit>>

BellmanFordAgainPlain ==
    \E source \in Nodes : BellmanFordAgain(source, {FALSE}, {FALSE}, BOOLEAN)

\* a node that is not in the graph
UnknownNodes == {NumNodes + 1}

\* a slip in lines 88-92: self.initialize(source) runs before the test
RefusedAfterInitialize(source) == Initialized(source)

\* lines 88-89: the four maps as a call with an unknown source leaves them
RefusedCall(source) ==
    [dt |-> distance_to, df |-> distance_from,
     pt |-> predecessor_to, pf |-> predecessor_from]

\* bellman_ford called with a source that is not in the graph:
\* `raise ValueError` at the call, no generator is made
BellmanFordUnknownSource ==
    /\ pc \in {"new", "done", "raised", "refused"}
    /\ pc # "new" => Len(history) + 1 < MaxCalls
    /\ \E source \in UnknownNodes :
        /\ LET st == RefusedCall(source)
           IN  /\ distance_to' = st.dt
               /\ distance_from' = st.df
               /\ predecessor_to' = st.pt
               /\ predecessor_from' = st.pf
        /\ \E unique_paths \in BOOLEAN :
              kwargs' = [source |-> source, loop_from_source |-> FALSE,
                         ensure_profit |-> FALSE, unique_paths |-> unique_paths]
    /\ pc' = "refused"
    /\ error' = "ValueError"
    /\ edge_i' = 0
    /\ yielded' = <<>>
    /\ last' = NoRetrace
    /\ history' = Logged
    /\ UNCHANGED <<finder, graph, seen_nodes, profit>>

\* _check_final_condition, one iteration of its for loop: the edge is not
\* a witness edge
ScanSkip ==
    /\ pc = "scan"
    /\ edge_i < Len(graph)
    /\ ~IsWitness(distance_to, graph[edge_i + 1])
    /\ edge_i' = edge_i + 1
    /\ UNCHANGED <<finder, graph, distance_to, distance_from, predecessor_to,
                   predecessor_from, seen_nodes, kwargs, pc, yielded, last, error,
                   history, profit>>

\* a retrace that relaxes the witness edge it was started for
RetracedRelaxing(r) ==
    /\ predecessor_to' = r.pt
    /\ predecessor_from' = r.pf
    /\ seen_nodes' = r.seen
    /\ last' = [kind |-> r.kind, start |-> graph[edge_i + 1].v, path |-> r.path,
                minimum |-> r.minimum, repeated |-> r.repeated]
    /\ distance_to' = [distance_to EXCEPT ![graph[edge_i + 1].v] =
                          Add(distance_to[graph[edge_i + 1].u], graph[edge_i + 1].weight)]
    /\ UNCHANGED <<finder, graph, distance_from, kwargs, history, profit>>

\* the state a retrace leaves behind, whatever its outcome
Retraced(r) ==
    /\ predecessor_to' = r.pt
    /\ predecessor_from' = r.pf
    /\ seen_nodes' = r.seen
    /\ last' = [kind |-> r.kind, start |-> graph[edge_i + 1].v, path |-> r.path,
                minimum |-> r.minimum, repeated |-> r.repeated]
    /\ UNCHANGED <<finder, graph, distance_to, distance_from, kwargs, history, profit>>

\* a witness edge whose retrace returns: `yield path`
ScanYield ==
    /\ pc = "scan"
    /\ edge_i < Len(graph)
    /\ IsWitness(distance_to, graph[edge_i + 1])
    /\ LET r == Retrace(graph[edge_i + 1].v)
       IN  /\ r.kind = "path"
           /\ Retraced(r)
           /\ yielded' = Append(yielded, [loop |-> r.path, minimum |-> r.minimum])
    /\ edge_i' = edge_i + 1
    /\ UNCHANGED <<pc, error>>

\* a `continue` that stays on the edge it was on
ScanSeenSameEdge ==
    /\ pc = "scan"
    /\ edge_i < Len(graph)
    /\ IsWitness(distance_to, graph[edge_i + 1])
    /\ LET r == Retrace(graph[edge_i + 1].v)
       IN  /\ r.kind = "SeenNodeError"
           /\ Retraced(r)
    /\ UNCHANGED <<pc, edge_i, yielded, error>>

\* a witness edge whose retrace raises SeenNodeError: `continue`
ScanSeen ==
    /\ pc = "scan"
    /\ edge_i < Len(graph)
    /\ IsWitness(distance_to, graph[edge_i + 1])
    /\ LET r == Retrace(graph[edge_i + 1].v)
       IN  /\ r.kind = "SeenNodeError"
           /\ Retraced(r)
    /\ edge_i' = edge_i + 1
    /\ UNCHANGED <<pc, yielded, error>>

\* a witness edge whose retrace raises anything else: nothing catches it,
\* the exception leaves the generator, which is then finished
ScanRaise ==
    /\ pc = "scan"
    /\ edge_i < Len(graph)
    /\ IsWitness(distance_to, graph[edge_i + 1])
    /\ LET r == Retrace(graph[edge_i + 1].v)
       IN  /\ r.kind \notin {"path", "SeenNodeError"}
           /\ Retraced(r)
           /\ error' = r.kind
    /\ pc' = "raised"
    /\ UNCHANGED <<edge_i, yielded>>

\* the for loop is over: the generator is exhausted
ScanEnd ==
    /\ pc = "scan"
    /\ edge_i = Len(graph)
    /\ pc' = "done"
    /\ UNCHANGED <<finder, graph, distance_to, distance_from, predecessor_to,
                   predecessor_from, seen_nodes, kwargs, edge_i, yielded, last, error,
                   history, profit>>

\* bellman_ford with unique_paths=False, in each of the three modes
BellmanFordRetraceable ==
    \E source \in Nodes :
        \/ finder = "plain" /\ BellmanFord(source, BOOLEAN, BOOLEAN, {FALSE})
        \/ finder = "depth" /\ BellmanFord(source, {FALSE}, {FALSE}, {FALSE})

\* every cursor is at position 0
AllReset(pt, pf) ==
    \A n \in DOMAIN pt : pt[n].cursor = 0 /\ pf[n].cursor = 0

\* self._retrace_negative_loop(start, ...) called directly, with the flags
\* of the bellman_ford call, on the head of a witness edge; the generator
\* bellman_ford returned is left unconsumed
RetraceCall ==
    /\ pc \in {"scan", "retraced", "reset"}
    /\ edge_i = 0
    /\ Len(history) < MaxRetraces
    /\ \E i \in 1..Len(graph) :
        /\ IsWitness(distance_to, graph[i])
        /\ LET start == graph[i].v
               r == Retrace(start)
           IN  /\ predecessor_to' = r.pt
               /\ predecessor_from' = r.pf
               /\ seen_nodes' = r.seen
               /\ last' = [kind |-> r.kind, start |-> start, path |-> r.path,
                           minimum |-> r.minimum, repeated |-> r.repeated]
               /\ history' = Append(history,
                     [start |-> start, kind |-> r.kind, path |-> r.path,
                      minimum |-> r.minimum,
                      after_reset |-> pc = "reset",
                      from_reset |-> AllReset(predecessor_to, predecessor_from)])
    /\ pc' = "retraced"
    /\ UNCHANGED <<finder, graph, distance_to, distance_from, kwargs, edge_i,
                   yielded, error, profit>>

\* self.reset_predecessor_iteration() called directly after a retrace
ResetCall ==
    /\ pc = "retraced"
    /\ LET s == reset_predecessor_iteration(
                    [pt |-> predecessor_to, pf |-> predecessor_from, seen |-> seen_nodes])
       IN  /\ predecessor_to' = s.pt
           /\ predecessor_from' = s.pf
    /\ pc' = "reset"
    /\ UNCHANGED <<finder, graph, distance_to, distance_from, seen_nodes, kwargs,
                   edge_i, yielded, last, error, history, profit>>

\* --------------------------------------------- initialize and relax, direct
\* every graph of at most MaxEdges edges, self-loops included, its edges in
\* ascending order
InitRelax ==
    \E n \in 0..MaxEdges :
        ConstructedOver("plain", {ps \in [1..n -> NodePairs] : Ascending(ps)}, n,
                        Weights, {0})

\* self.initialize(source) called directly
InitializeCall ==
    /\ pc = "new"
    /\ \E source \in Nodes :
          LET st == Initialized(source)
          IN  /\ distance_to' = st.dt
              /\ distance_from' = st.df
              /\ predecessor_to' = st.pt
              /\ predecessor_from' = st.pf
              /\ kwargs' = [NoKwargs EXCEPT !.source = source]
    /\ pc' = "relaxing"
    /\ UNCHANGED <<finder, graph, seen_nodes, edge_i, yielded, last, error, history,
                   profit>>

\* self.relax(edge) called directly on any edge of the graph, in any order;
\* history lists the edges relaxed so far
RelaxCall ==
    /\ pc = "relaxing"
    /\ Len(history) < MaxRelaxCalls
    /\ \E i \in 1..Len(graph) :
          LET st == Relax([dt |-> distance_to, df |-> distance_from,
                           pt |-> predecessor_to, pf |-> predecessor_from], graph[i])
          IN  /\ distance_to' = st.dt
              /\ distance_from' = st.df
              /\ predecessor_to' = st.pt
              /\ predecessor_from' = st.pf
              /\ history' = Append(history, i)
    /\ UNCHANGED <<finder, graph, seen_nodes, kwargs, pc, edge_i, yielded, last, error,
                   profit>>

\* ---------------------------------------------------------- profit ratio
\* The amounts of calculate_profit_ratio_for_path are the reals
\* (num / den) * e^exp, den > 0, num / den in lowest terms, 0 as 0/1 * e^0:
\* the starting amount is an integer, each edge multiplies by
\* math.exp(-weight). The arithmetic is that of the reals; the rounding and
\* the overflow of Python's floats are left out.
RECURSIVE Gcd(_, _)
Gcd(a, b) == IF b = 0 THEN a ELSE Gcd(b, a % b)

Amount(num, den, exp) ==
    IF num = 0 THEN [num |-> 0, den |-> 1, exp |-> 0]
    ELSE LET d == Gcd(Abs(num), den)
         IN  [num |-> num \div d, den |-> den \div d, exp |-> exp]

\* math.exp(-weight)
ExpNeg(weight) == Amount(1, 1, 0 - weight)

\* x * y
Times(x, y) == Amount(x.num * y.num, x.den * y.den, x.exp + y.exp)

\* x / n for an integer n # 0
Over(x, n) ==
    IF n > 0 THEN Amount(x.num, x.den * n, x.exp)
    ELSE Amount(0 - x.num, x.den * (0 - n), x.exp)

\* the for loop of lines 395-419 with depth=False: ratio *= math.exp(-weight)
RECURSIVE ProfitLoop(_, _, _)
ProfitLoop(g, path, ratio) ==
    IF Len(path) < 2 THEN ratio
    ELSE ProfitLoop(g, Tail(path),
                    Times(ratio, ExpNeg(EdgeData(g, path[1], path[2]).weight)))

\* a calculate_profit_ratio_for_path that returns ratio as the loop leaves it
profit_ratio_not_divided(g, path, starting_amount) ==
    [kind |-> "returned", ratio |-> ProfitLoop(g, path, Amount(starting_amount, 1, 0))]

\* calculate_profit_ratio_for_path(graph, path, depth=False, starting_amount):
\* `return ratio / starting_amount`, a ZeroDivisionError when that is 0
calculate_profit_ratio_for_path(g, path, starting_amount) ==
    LET ratio == ProfitLoop(g, path, Amount(starting_amount, 1, 0))
    IN  IF starting_amount = 0
        THEN [kind |-> "ZeroDivisionError", ratio |-> ratio]
        ELSE [kind |-> "returned", ratio |-> Over(ratio, starting_amount)]

\* the paths of at most MaxPathNodes nodes that follow edges of the graph,
\* the empty path and the paths of one node included
Paths(g) ==
    UNION {{path \in [1..n -> Nodes] : IsWalk(g, path)} : n \in 0..MaxPathNodes}

StartingAmounts == 0..MaxStartingAmount

\* calculate_profit_ratio_for_path called on the graph with depth=False
CalculateProfitRatio ==
    /\ pc = "new"
    /\ \E path \in Paths(graph), starting_amount \in StartingAmounts :
          LET r == calculate_profit_ratio_for_path(graph, path, starting_amount)
          IN  profit' = [kind |-> r.kind, ratio |-> r.ratio, path |-> path,
                         starting_amount |-> starting_amount]
    /\ UNCHANGED <<finder, graph, distance_to, distance_from, predecessor_to,
                   predecessor_from, seen_nodes, kwargs, pc, edge_i, yielded, last,
                   error, history>>

\* ---------------------------------------------------------- specifications
\* initialize, then relax calls in any order
NextRelax == InitializeCall \/ RelaxCall

SpecRelax == InitRelax /\ [][NextRelax]_vars

\* the profit evaluator on every small graph
SpecProfit == InitSmall /\ [][CalculateProfitRatio]_vars

\* plain mode, every small graph
Next == BellmanFordPlain \/ ScanSkip \/ ScanYield \/ ScanSeen \/ ScanRaise \/ ScanEnd

Spec == Init /\ [][Next]_vars

\* plain mode, the graphs without self-loops
SpecSimple == InitSimple /\ [][Next]_vars

\* source-anchored mode
NextAnchored ==
    BellmanFordAnchored \/ ScanSkip \/ ScanYield \/ ScanSeen \/ ScanRaise \/ ScanEnd

SpecAnchored == InitAnchored /\ [][NextAnchored]_vars

\* volume-constrained mode
NextDepth ==
    BellmanFordDepth \/ ScanSkip \/ ScanYield \/ ScanSeen \/ ScanRaise \/ ScanEnd

SpecDepth == InitDepth /\ [][NextDepth]_vars

\* plain mode, bellman_ford called up to MaxCalls times on one finder
NextCalls ==
    \/ BellmanFordPlain \/ BellmanFordAgainPlain \/ BellmanFordUnknownSource
    \/ ScanSkip \/ ScanYield \/ ScanSeen \/ ScanRaise \/ ScanEnd

SpecCalls == InitSmall /\ [][NextCalls]_vars

\* the retrace and the reset called directly, in each of the three modes
InitRetrace == InitSmall \/ InitDepthSmall

NextRetrace == BellmanFordRetraceable \/ RetraceCall \/ ResetCall

SpecRetrace == InitRetrace /\ [][NextRetrace]_vars

\* a finder called with any flags
NextDepthAnyFlags ==
    BellmanFordAnyFlags \/ ScanSkip \/ ScanYield \/ ScanSeen \/ ScanRaise \/ ScanEnd

\* the depth finder called with any flags
SpecDepthAnyFlags == InitDepthSmall /\ [][NextDepthAnyFlags]_vars

\* both finders called with any flags, the caller consuming the generator
\* to its end: each next() of the caller's for loop runs the generator up to
\* its next yield, its end or an exception
SpecConsume ==
    InitRetrace /\ [][NextDepthAnyFlags]_vars /\ WF_vars(NextDepthAnyFlags)

\* ------------------------------------------------------------ properties
\* the nodes reachable from the nodes S in at most n steps
RECURSIVE Reach(_, _, _)
Reach(g, S, n) ==
    IF n = 0 THEN S
    ELSE Reach(g, S \cup {g[i].v : i \in {j \in 1..Len(g) : g[j].u \in S}}, n - 1)

Reachable(g, source) == Reach(g, {source}, NumNodes)

\* the simple cycles of g, each as the sequence of its nodes from any start
SimpleCycles(g) ==
    {c \in UNION {[1..k -> Nodes] : k \in 1..NumNodes} :
        /\ \A i, j \in DOMAIN c : i # j => c[i] # c[j]
        /\ \A i \in DOMAIN c : HasEdge(g, c[i], c[(i % Len(c)) + 1])}

CycleWeight(g, c) == PathWeight(g, Append(c, c[1]))

CycleEdges(c) == {<<c[i], c[(i % Len(c)) + 1]>> : i \in DOMAIN c}

NegativeCycles(g) == {c \in SimpleCycles(g) : CycleWeight(g, c) < 0}

NegativeCycleReachable(g, source) ==
    \E c \in NegativeCycles(g) : c[1] \in Reachable(g, source)

Called == pc # "new"

Finished == pc \in {"done", "raised"}

Loops == {yielded[i].loop : i \in 1..Len(yielded)}

\* C1: when no negative-weight cycle is reachable from source, no edge is a
\* witness edge after the relaxation passes, no retrace is started and the
\* sequence bellman_ford returns is empty.
C1_NoNegativeCycleYieldsNothing ==
    (Called /\ ~NegativeCycleReachable(graph, kwargs.source)) =>
        /\ \A i \in 1..Len(graph) : ~IsWitness(distance_to, graph[i])
        /\ last.kind = "none"
        /\ yielded = <<>>
        /\ error = "none"

\* a finished run over a graph that has a reachable cycle and a negative
\* edge but no reachable negative cycle, every node reached from source
C1_Witness ==
    /\ pc = "done"
    /\ ~NegativeCycleReachable(graph, kwargs.source)
    /\ \E c \in SimpleCycles(graph) : c[1] \in Reachable(graph, kwargs.source)
    /\ \E i \in 1..Len(graph) : graph[i].weight < 0
    /\ \A n \in Nodes : distance_to[n] # Inf
    /\ yielded = <<>>

\* the only negative cycle of g is one simple cycle on three nodes
OnlyNegativeCycleIsTriangle(g) ==
    \E c \in NegativeCycles(g) :
        /\ Len(c) = 3
        /\ \A d \in NegativeCycles(g) : CycleEdges(d) = CycleEdges(c)

\* li is a rotation of the cycle c closed by repeating its first node
IsClosedRotation(li, c) ==
    /\ Len(li) = Len(c) + 1
    /\ li[1] = li[Len(li)]
    /\ {<<li[i], li[i + 1]>> : i \in 1..(Len(li) - 1)} = CycleEdges(c)

\* C2: on a graph whose only negative cycle is one 3-node cycle, from a
\* source with a path into it, a plain run with unique_paths yields exactly
\* one cycle, a rotation of that 3-node cycle.
C2_TriangleYieldedOnce ==
    (/\ Finished
     /\ ~kwargs.loop_from_source
     /\ kwargs.unique_paths
     /\ OnlyNegativeCycleIsTriangle(graph)
     /\ NegativeCycleReachable(graph, kwargs.source)) =>
        /\ error = "none"
        /\ Len(yielded) = 1
        /\ \E c \in NegativeCycles(graph) : IsClosedRotation(yielded[1].loop, c)

\* C3: every cycle a plain run yields has a strictly negative sum of edge
\* weights along its consecutive node pairs.
C3_YieldedCyclesNegative ==
    ~kwargs.loop_from_source =>
        \A li \in Loops : IsWalk(graph, li) /\ PathWeight(graph, li) < 0

\* C4: with unique_paths, any two cycles a plain run yields have disjoint
\* node sets.
C4_UniqueCyclesDisjoint ==
    (finder = "plain" /\ ~kwargs.loop_from_source /\ kwargs.unique_paths) =>
        \A i, j \in 1..Len(yielded) :
            i # j => SetOf(yielded[i].loop) \cap SetOf(yielded[j].loop) = {}

\* C5: with unique_paths, any two records a volume-constrained run yields
\* have loops with disjoint node sets.
C5_UniqueDepthLoopsDisjoint ==
    (finder = "depth" /\ kwargs.unique_paths) =>
        \A i, j \in 1..Len(yielded) :
            i # j => SetOf(yielded[i].loop) \cap SetOf(yielded[j].loop) = {}

\* li begins and ends at the same node and repeats no other node
IsSimpleClosed(li) ==
    /\ Len(li) >= 2
    /\ li[1] = li[Len(li)]
    /\ \A i, j \in 1..(Len(li) - 1) : i # j => li[i] # li[j]

\* C6: every cycle the plain retrace returns is a closed walk of the graph:
\* first node = last node, every consecutive pair is an edge, and no other
\* node occurs twice.
C6_PlainCycleIsClosedWalk ==
    (finder = "plain" /\ ~kwargs.loop_from_source) =>
        \A li \in Loops : IsSimpleClosed(li) /\ IsWalk(graph, li)

\* the plain retrace returned a cycle of two or more nodes after walking through
\* a node that is not on it: the walk was cut down to the cycle
C6_Witness ==
    /\ finder = "plain" /\ ~kwargs.loop_from_source
    /\ last.kind = "path"
    /\ last.start \notin SetOf(last.path)
    /\ Len(last.path) >= 3
    /\ yielded # <<>> /\ yielded[Len(yielded)].loop = last.path

\* C7: in source-anchored mode with ensure_profit, a path whose cycle body
\* was repeated (return_path_weight > 0) starts and ends at source and the
\* sum of the edge weights along it is strictly negative.
C7_RepeatedPathProfitable ==
    (/\ kwargs.loop_from_source /\ kwargs.ensure_profit
     /\ last.kind = "path" /\ last.repeated > 0) =>
        /\ last.path[1] = kwargs.source
        /\ last.path[Len(last.path)] = kwargs.source
        /\ IsWalk(graph, last.path)
        /\ PathWeight(graph, last.path) < 0

\* C8: in source-anchored mode every returned path begins and ends at
\* source and every consecutive pair of it is an edge of the graph.
C8_AnchoredPathIsWalkFromSource ==
    kwargs.loop_from_source =>
        \A li \in Loops :
            /\ li[1] = kwargs.source
            /\ li[Len(li)] = kwargs.source
            /\ IsWalk(graph, li)

\* C9: in volume mode the returned minimum is at most the depth of every
\* edge between consecutive nodes of the returned loop.
C9_MinimumAtMostEveryDepth ==
    finder = "depth" =>
        \A k \in 1..Len(yielded) :
            \A i \in 1..(Len(yielded[k].loop) - 1) :
                yielded[k].minimum <=
                    EdgeData(graph, yielded[k].loop[i], yielded[k].loop[i + 1]).depth

\* C10: a retrace that finds a candidate store exhausted is abandoned and
\* the scan goes on with the next edge: no run ends with an exhaustion error.
C10_ExhaustionNeverEndsRun ==
    last.kind = "ExhaustedError" => (pc # "raised" /\ error # "ExhaustedError")

\* C11: on the depth finder a call with loop_from_source or ensure_profit
\* fails with the configuration error (ValueError) before any edge is
\* relaxed, on every graph, also when no edge is a witness edge.
C11_DepthFlagsFailFast ==
    (finder = "depth" /\ Called
     /\ (kwargs.loop_from_source \/ kwargs.ensure_profit)) =>
        /\ pc = "raised"
        /\ error = "ValueError"
        /\ \A n \in Nodes : predecessor_to[n].items = <<>>

\* this step is a call of bellman_ford
IsCall == pc = "new" \/ history' # history

\* C12: a call of bellman_ford with a source that is not a node of the graph
\* fails with the unknown-node error (ValueError) at the call itself, and
\* leaves distance_to, distance_from, predecessor_to, predecessor_from and
\* seen_nodes as they were.
C12_UnknownSourceRefused ==
    [][(IsCall /\ kwargs'.source \notin Nodes) =>
        /\ pc' = "refused"
        /\ error' = "ValueError"
        /\ yielded' = <<>>
        /\ distance_to' = distance_to
        /\ distance_from' = distance_from
        /\ predecessor_to' = predecessor_to
        /\ predecessor_from' = predecessor_from
        /\ seen_nodes' = seen_nodes]_vars

\* a call with an unknown source was refused after a run that yielded a
\* cycle and marked nodes as seen
C12_Witness ==
    /\ pc = "refused"
    /\ error = "ValueError"
    /\ history # <<>>
    /\ history[Len(history)].yielded # <<>>
    /\ seen_nodes # {}
    /\ distance_to # EmptyDict

\* C13: a second call of bellman_ford with the same arguments and
\* unique_paths, the first sequence consumed to its end, yields the same
\* sequence of cycles as the first call.
C13_SecondRunSameCycles ==
    (Finished /\ history # <<>> /\ kwargs.unique_paths) =>
        LET first == history[Len(history)]
        IN  (first.kwargs = kwargs /\ first.error = "none") =>
                (yielded = first.yielded /\ error = "none")

\* the i-th retrace repeats the one before it: the same start node, and
\* reset_predecessor_iteration was called between the two
IsRepeatedRetrace(i) ==
    /\ i \in 2..Len(history)
    /\ history[i].after_reset
    /\ history[i].start = history[i - 1].start
    /\ history[i - 1].kind = "path"

WitnessEdges(n) == {i \in 1..n : IsWitness(distance_to, graph[i])}

\* the ways a retrace ends: it returns a path or raises one of these
RetraceEnds ==
    {"path", "SeenNodeError", "ExhaustedError", "ValueError", "ZeroDivisionError",
     "IndexError", "OverflowError", "KeyError"}

\* C15: consuming the sequence bellman_ford returns terminates, in each
\* mode and for either value of unique_paths: the retrace of the witness
\* edge the scan stands on ends, by returning or by raising; every step of
\* the scan moves to the next edge or finishes the run, and there are no
\* more steps than edges; every element is produced by the witness edge the
\* scan stands on, so the sequence holds at most one element per witness
\* edge passed, in edge-iteration order.
C15_ConsumptionTerminates ==
    /\ [](pc = "scan" =>
            /\ edge_i <= Len(graph)
            /\ (edge_i < Len(graph) /\ IsWitness(distance_to, graph[edge_i + 1])) =>
                    Retrace(graph[edge_i + 1].v).kind \in RetraceEnds)
    /\ [](Called => Len(yielded) <= Cardinality(WitnessEdges(edge_i)))
    /\ [][pc = "scan" =>
            \/ pc' \in {"done", "raised"} /\ edge_i' = edge_i
            \/ pc' = "scan" /\ edge_i' = edge_i + 1]_vars
    /\ [][yielded' # yielded =>
            /\ edge_i < Len(graph)
            /\ IsWitness(distance_to, graph[edge_i + 1])
            /\ edge_i' = edge_i + 1
            /\ last'.kind = "path" /\ last'.start = graph[edge_i + 1].v
            /\ yielded' = Append(yielded, [loop |-> last'.path, minimum |-> last'.minimum])]_vars

\* a run consumed to its end that yielded for fewer witness edges than it
\* passed
C15_Witness ==
    /\ pc = "done"
    /\ Len(yielded) >= 1
    /\ Cardinality(WitnessEdges(Len(graph))) > Len(yielded)

\* the path is evaluated as C16 states: the multiplier is e^(-w) for the
\* sum w of the path's weights, and exactly 1 when every weight is 0 or the
\* path has fewer than two nodes
IsExpNegOfWeight ==
    /\ profit.kind = "returned"
    /\ profit.ratio = ExpNeg(PathWeight(graph, profit.path))
    /\ (\/ Len(profit.path) < 2
        \/ \A i \in 1..(Len(profit.path) - 1) :
              EdgeData(graph, profit.path[i], profit.path[i + 1]).weight = 0)
            => profit.ratio = Amount(1, 1, 0)

Reversed(g) == [i \in 1..Len(g) |-> [g[i] EXCEPT !.u = g[i].v, !.v = g[i].u]]

\* a negative cycle from which source can be reached
NegativeCycleReaching(g, source) ==
    \E c \in NegativeCycles(g) : c[1] \in Reachable(Reversed(g), source)

\* the simple paths of g from a to b
SimplePaths(g, a, b) ==
    {path \in UNION {[1..k -> Nodes] : k \in 1..NumNodes} :
        /\ path[1] = a /\ path[Len(path)] = b
        /\ \A i, j \in DOMAIN path : i # j => path[i] # path[j]
        /\ IsWalk(g, path)}

\* the weight of a shortest simple path from a to b, Inf when there is none
ShortestPathWeight(g, a, b) ==
    LET weights == {PathWeight(g, path) : path \in SimplePaths(g, a, b)}
    IN  IF weights = {} THEN Inf
        ELSE CHOOSE w \in weights : \A x \in weights : w <= x

\* C17: when no negative cycle is reachable from source, the relaxation
\* passes leave in distance_to[v] the weight of a shortest path from source
\* to v (infinity when there is none), in every edge-iteration order; when no
\* negative cycle can reach source, distance_from[v] is the weight of a
\* shortest path from v to source.
C17_DistancesAreShortest ==
    (pc = "scan" /\ edge_i = 0) =>
        /\ ~NegativeCycleReachable(graph, kwargs.source) =>
              \A v \in Nodes :
                  distance_to[v] = ShortestPathWeight(graph, kwargs.source, v)
        /\ ~NegativeCycleReaching(graph, kwargs.source) =>
              \A v \in Nodes :
                  distance_from[v] = ShortestPathWeight(graph, v, kwargs.source)

\* no negative cycle touches source either way, and a node is nearer to
\* source over two edges than over the edge from source, another nearer from
\* it over two edges than over the edge to source
C17_Witness ==
    /\ pc = "scan" /\ edge_i = 0
    /\ ~NegativeCycleReachable(graph, kwargs.source)
    /\ ~NegativeCycleReaching(graph, kwargs.source)
    /\ \E v \in Nodes :
          /\ HasEdge(graph, kwargs.source, v)
          /\ distance_to[v] < EdgeData(graph, kwargs.source, v).weight
    /\ \E v \in Nodes : distance_from[v] \notin {0, Inf}

\* C18: after a retrace that returns, in plain, source-anchored or depth
\* mode, the cursor of every store of predecessor_to and predecessor_from is
\* back at position 0.
C18_CursorsResetAfterReturn ==
    (Called /\ last.kind = "path") => AllReset(predecessor_to, predecessor_from)

\* the update of the running minimum as C19 states it
StatedNextMinimum(m, w, d) == IF w + d > m THEN d ELSE Max(m - w, d)

\* the stated update over the edges of loop that end at loop[i], loop[i - 1],
\* ..., loop[2], in the order the retrace walks them
RECURSIVE StatedMinimumFrom(_, _, _, _)
StatedMinimumFrom(g, loop, i, m) ==
    IF i < 2 THEN m
    ELSE LET e == EdgeData(g, loop[i - 1], loop[i])
         IN  StatedMinimumFrom(g, loop, i - 1, StatedNextMinimum(m, e.weight, e.depth))

\* the minimum of a returned loop as C19 states it: the depth of the edge
\* into the witness node loop[Len(loop)], then the update for each edge
\* before it
StatedMinimum(g, loop) ==
    StatedMinimumFrom(g, loop, Len(loop) - 1,
                      EdgeData(g, loop[Len(loop) - 1], loop[Len(loop)]).depth)

\* C19: the minimum the depth retrace returns with a loop starts as the
\* depth of the edge into the witness node and is updated, for each further
\* edge of weight w and depth d, to d when w + d exceeds it and to
\* max(minimum - w, d) in every other case, w + d = minimum included.
C19_MinimumFollowsStatedUpdate ==
    (finder = "depth" /\ Called) =>
        \A i \in 1..Len(yielded) :
            yielded[i].minimum = StatedMinimum(graph, yielded[i].loop)

\* C20: no step of the final scan, whether its retrace returns a loop, is
\* skipped or aborts, changes distance_to or distance_from; which edges are
\* witness edges stays as the relaxation passes left it.
C20_RetraceKeepsDistances ==
    [][pc = "scan" =>
        /\ distance_to' = distance_to
        /\ distance_from' = distance_from
        /\ \A i \in 1..Len(graph) :
              IsWitness(distance_to', graph[i]) <=> IsWitness(distance_to, graph[i])]_vars

\* a run in which one retrace returned a loop and a later one aborted
C20_Witness ==
    /\ pc = "raised"
    /\ yielded # <<>>
    /\ last.kind \notin {"none", "path"}

\* C21: in plain mode with unique_paths=False, when a negative cycle is
\* reachable from source, some edge is a witness edge after the relaxation
\* passes and the consumed sequence holds at least one cycle.
C21_ReachableNegativeCycleYields ==
    (finder = "plain" /\ Called /\ ~kwargs.loop_from_source /\ ~kwargs.unique_paths
        /\ NegativeCycleReachable(graph, kwargs.source)) =>
        /\ \E i \in 1..Len(graph) : IsWitness(distance_to, graph[i])
        /\ Finished => yielded # <<>>

NoSelfLoops(g) == \A i \in 1..Len(g) : g[i].u # g[i].v

\* the distances dist and the stores pred agree as C22 states: no entry of
\* a store has a priority below the distance of its node; a non-empty store
\* of a node other than source has that distance as its smallest priority,
\* held by the candidate at cursor position 0
StoresFollowDistances(dist, pred, source) ==
    \A v \in Nodes :
        /\ \A k \in 1..Len(pred[v].items) : dist[v] <= pred[v].items[k].pri
        /\ (v # source /\ pred[v].items # <<>>) =>
              /\ \E k \in 1..Len(pred[v].items) : dist[v] = pred[v].items[k].pri
              /\ pred[v].cursor = 0
              /\ PSPeek(pred[v]).pri = dist[v]

\* C22: on a graph without self-loops, after initialize(source) and any
\* sequence of relax calls, distance_to[v] is at most the priority of every
\* entry of predecessor_to[v] and, for v other than source with a non-empty
\* store, equal to the smallest of them, which the candidate at cursor
\* position 0 holds, an edge into v; the same for distance_from and
\* predecessor_from with an edge out of v.
C22_StoresFollowDistances ==
    (pc = "relaxing" /\ NoSelfLoops(graph)) =>
        /\ StoresFollowDistances(distance_to, predecessor_to, kwargs.source)
        /\ StoresFollowDistances(distance_from, predecessor_from, kwargs.source)
        /\ \A v \in Nodes :
              /\ predecessor_to[v].items # <<>> =>
                    HasEdge(graph, PSPeek(predecessor_to[v]).node, v)
              /\ predecessor_from[v].items # <<>> =>
                    HasEdge(graph, v, PSPeek(predecessor_from[v]).node)

\* after four relax calls on a graph without self-loops a store other than
\* that of source holds a finite priority behind a smaller one
C22_Witness ==
    /\ pc = "relaxing"
    /\ NoSelfLoops(graph)
    /\ Len(history) = MaxRelaxCalls
    /\ \E v \in Nodes \ {kwargs.source} :
          /\ Len(predecessor_to[v].items) >= 2
          /\ predecessor_to[v].items[1].pri < predecessor_to[v].items[2].pri
          /\ predecessor_to[v].items[2].pri # Inf

====
